---- MODULE Spec2Model ----
(***************************************************************************)
(* SPIKE-distance module of PySpike (pyspike/spike_distance.py).           *)
(*                                                                         *)
(* The five public functions are modelled as whole-call actions over a     *)
(* heap of profile objects.  Times are integers, profile values are exact  *)
(* rationals <<numerator, denominator>>; a denominator of 0 stands for the *)
(* result of a division by zero.                                           *)
(***************************************************************************)
EXTENDS Integers, Sequences, FiniteSets, TLC

VARIABLES trains,   \* the caller's list of spike trains
          heap,     \* every PieceWiseLinFunc object allocated so far
          held,     \* profiles returned to the caller: reference and value at return
          last,     \* outcome of the most recent call
          calls     \* number of calls made

vars == <<trains, heap, held, last, calls>>

---------------------------------------------------------------------------
(* Bounds of the model *)

MaxTime == 3

MaxSpikes == 2

MaxCalls == 2

---------------------------------------------------------------------------
(* Exact rational arithmetic *)

Abs(a) == IF a < 0 THEN -a ELSE a

RECURSIVE GCD(_, _)
GCD(a, b) == IF b = 0 THEN a ELSE GCD(b, a % b)

NaN == <<1, 0>>

Zero == <<0, 1>>

IsNaN(r) == r[2] = 0

Rat(n, d) ==
    IF d = 0 THEN NaN
    ELSE LET g == GCD(Abs(n), Abs(d))
             sgn == IF d < 0 THEN -1 ELSE 1
         IN  <<sgn * (n \div g), sgn * (d \div g)>>

RInt(n) == <<n, 1>>

RAdd(a, b) ==
    IF IsNaN(a) \/ IsNaN(b) THEN NaN
    ELSE Rat(a[1] * b[2] + b[1] * a[2], a[2] * b[2])

RSub(a, b) ==
    IF IsNaN(a) \/ IsNaN(b) THEN NaN
    ELSE Rat(a[1] * b[2] - b[1] * a[2], a[2] * b[2])

RMul(a, b) ==
    IF IsNaN(a) \/ IsNaN(b) THEN NaN
    ELSE Rat(a[1] * b[1], a[2] * b[2])

RDiv(a, b) ==
    IF IsNaN(a) \/ IsNaN(b) THEN NaN
    ELSE Rat(a[1] * b[2], a[2] * b[1])

RNonNeg(a) == ~IsNaN(a) /\ a[1] >= 0

---------------------------------------------------------------------------
(* Sets and sequences *)

Range(s) == {s[i] : i \in DOMAIN s}

SetMin(S) == CHOOSE m \in S : \A n \in S : m <= n

SetMax(S) == CHOOSE m \in S : \A n \in S : m >= n

RECURSIVE SortedSeq(_)
SortedSeq(S) ==
    IF S = {} THEN <<>>
    ELSE LET m == SetMin(S) IN <<m>> \o SortedSeq(S \ {m})

---------------------------------------------------------------------------
(* SpikeTrain: spike times inside an observation interval *)

SpikeTrain(spikes, t_start, t_end) ==
    [spikes |-> spikes, t_start |-> t_start, t_end |-> t_end]

Intervals == {<<0, MaxTime>>, <<0, MaxTime - 1>>, <<1, MaxTime>>}

TrainPool ==
    UNION {{SpikeTrain(SortedSeq(S), iv[1], iv[2]) :
                S \in {T \in SUBSET (iv[1] .. iv[2]) : Cardinality(T) <= MaxSpikes}} :
           iv \in Intervals}

---------------------------------------------------------------------------
(* Merge backend for the SPIKE-distance (spike_distance_impl) *)

get_min_dist(u, other, t_start, t_end) ==
    SetMin({Abs(u - m) : m \in Range(other) \cup {t_start, t_end}})

\* Local ISI of train t on the segment [a, b] and its coincidence term s at
\* both ends of the segment.
LocalTerm(t, other, a, b, t_start, t_end) ==
    LET N == Len(t)
        prevs == {u \in Range(t) : u <= a}
        nexts == {u \in Range(t) : u >= b}
    IN  IF N = 0
        THEN [isi |-> t_end - t_start, sa |-> Zero, sb |-> Zero]
        ELSE IF prevs # {} /\ nexts # {}
        THEN LET p == SetMax(prevs)
                 f == SetMin(nexts)
                 dp == get_min_dist(p, other, t_start, t_end)
                 df == get_min_dist(f, other, t_start, t_end)
             IN  [isi |-> f - p,
                  sa |-> Rat(dp * (f - a) + df * (a - p), f - p),
                  sb |-> Rat(dp * (f - b) + df * (b - p), f - p)]
        ELSE IF prevs = {}
        THEN LET f == SetMin(nexts)
                 edge == f - t_start
                 isi == IF N >= 2 /\ t[2] - t[1] > edge THEN t[2] - t[1] ELSE edge
                 tp == f - isi
                 df == get_min_dist(f, other, t_start, t_end)
             IN  [isi |-> isi,
                  sa |-> IF a = t_start THEN Rat(df * (f - t_start), isi)
                                        ELSE Rat(df * (a - tp), isi),
                  sb |-> Rat(df * (b - tp), isi)]
        ELSE LET p == SetMax(prevs)
                 edge == t_end - p
                 isi == IF N >= 2 /\ t[N] - t[N - 1] > edge THEN t[N] - t[N - 1]
                                                            ELSE edge
                 dp == get_min_dist(p, other, t_start, t_end)
             IN  [isi |-> isi,
                  sa |-> Rat(dp * (t_end - p), isi),
                  sb |-> Rat(dp * (t_end - p), isi)]

\* (s1*isi2 + s2*isi1) / (0.5*(isi1+isi2)^2)
SegmentValue(s1, s2, isi1, isi2) ==
    RDiv(RAdd(RMul(s1, RInt(isi2)), RMul(s2, RInt(isi1))),
         Rat((isi1 + isi2) * (isi1 + isi2), 2))

spike_distance_impl(spikes1, spikes2, t_start, t_end) ==
    LET times == SortedSeq(Range(spikes1) \cup Range(spikes2) \cup {t_start, t_end})
        L1(k) == LocalTerm(spikes1, spikes2, times[k], times[k + 1], t_start, t_end)
        L2(k) == LocalTerm(spikes2, spikes1, times[k], times[k + 1], t_start, t_end)
    IN  [times |-> times,
         y_starts |-> [k \in 1 .. Len(times) - 1 |->
                          SegmentValue(L1(k).sa, L2(k).sa, L1(k).isi, L2(k).isi)],
         y_ends |-> [k \in 1 .. Len(times) - 1 |->
                          SegmentValue(L1(k).sb, L2(k).sb, L1(k).isi, L2(k).isi)]]

---------------------------------------------------------------------------
(* Optional arguments: None or a value *)

None == [none |-> TRUE, v |-> <<>>]

Some(v) == [none |-> FALSE, v |-> v]

\* The value of a statement "x = v; return F(x)", written Only({F(x) : x \in {v}}):
\* v is evaluated once and F runs on its value.
Only(S) == CHOOSE r \in S : TRUE

---------------------------------------------------------------------------
(* PieceWiseLinFunc: breakpoints x, and per segment the values y1 at its     *)
(* start and y2 at its end                                                 *)

PieceWiseLinFunc(times, y_starts, y_ends) ==
    [x |-> times, y1 |-> y_starts, y2 |-> y_ends]

\* Value inside segment k at time t, by linear interpolation.
ValIn(f, k, t) ==
    RAdd(f.y1[k],
         RMul(RSub(f.y2[k], f.y1[k]), Rat(t - f.x[k], f.x[k + 1] - f.x[k])))

\* Right-hand and left-hand limits of the profile at time t.
ValRight(f, t) ==
    LET ks == {k \in 1 .. Len(f.x) - 1 : f.x[k] <= t /\ t < f.x[k + 1]}
    IN  IF ks = {} THEN NaN ELSE ValIn(f, SetMin(ks), t)

ValLeft(f, t) ==
    LET ks == {k \in 1 .. Len(f.x) - 1 : f.x[k] < t /\ t <= f.x[k + 1]}
    IN  IF ks = {} THEN NaN ELSE ValIn(f, SetMin(ks), t)

\* Pointwise sum over the union of the two breakpoint grids.
add(f, g) ==
    LET x == SortedSeq(Range(f.x) \cup Range(g.x))
    IN  [x |-> x,
         y1 |-> [k \in 1 .. Len(x) - 1 |-> RAdd(ValRight(f, x[k]), ValRight(g, x[k]))],
         y2 |-> [k \in 1 .. Len(x) - 1 |->
                    RAdd(ValLeft(f, x[k + 1]), ValLeft(g, x[k + 1]))]]

mul_scalar(f, c) ==
    [x |-> f.x,
     y1 |-> [k \in DOMAIN f.y1 |-> RMul(f.y1[k], c)],
     y2 |-> [k \in DOMAIN f.y2 |-> RMul(f.y2[k], c)]]

RECURSIVE IntegralFrom(_, _, _, _)
IntegralFrom(f, k, a, b) ==
    IF k > Len(f.x) - 1 THEN Zero
    ELSE LET lo == IF a > f.x[k] THEN a ELSE f.x[k]
             hi == IF b < f.x[k + 1] THEN b ELSE f.x[k + 1]
             piece == IF lo < hi
                      THEN RMul(Rat(hi - lo, 2), RAdd(ValIn(f, k, lo), ValIn(f, k, hi)))
                      ELSE Zero
         IN  RAdd(piece, IntegralFrom(f, k + 1, a, b))

\* Trapezoidal integral over the interval divided by its duration.
avrg(f, interval) ==
    LET a == IF interval.none THEN f.x[1] ELSE interval.v[1]
        b == IF interval.none THEN f.x[Len(f.x)] ELSE interval.v[2]
    IN  RDiv(IntegralFrom(f, 1, a, b), RInt(b - a))

---------------------------------------------------------------------------
(* Outcome of a call: the heap it leaves, what it returns or raises, and   *)
(* the number of merge backend calls it made                               *)

Raise(h, err, merges) ==
    [ok |-> FALSE, err |-> err, heap |-> h, ref |-> 0, value |-> Zero,
     matrix |-> <<>>, M |-> 0, merges |-> merges]

Return(h, ref, value, matrix, M, merges) ==
    [ok |-> TRUE, err |-> "", heap |-> h, ref |-> ref, value |-> value,
     matrix |-> matrix, M |-> M, merges |-> merges]

---------------------------------------------------------------------------
(* spike_profile *)

\* Variant that compares the interval starts only.
IntervalsMatchStartOnly(t1, t2) ==
    t1.t_start = t2.t_start

IntervalsMatch(t1, t2) ==
    t1.t_start = t2.t_start /\ t1.t_end = t2.t_end

\* Variant that hands the first train's spikes to the backend twice.
BackendArgsSameSpikes(t1, t2) == <<t1.spikes, t1.spikes, t1.t_start, t1.t_end>>

\* Variant that hands t_start to the backend as both interval bounds.
BackendArgsSameBound(t1, t2) == <<t1.spikes, t2.spikes, t1.t_start, t1.t_start>>

BackendArgs(t1, t2) == <<t1.spikes, t2.spikes, t1.t_start, t1.t_end>>

\* Variant that keeps one object and hands it out again.
NewObjectShared(h, obj) ==
    IF h = <<>> THEN [heap |-> <<obj>>, ref |-> 1]
    ELSE [heap |-> [h EXCEPT ![1] = obj], ref |-> 1]

\* A constructor call allocates a new object.
NewObject(h, obj) == [heap |-> Append(h, obj), ref |-> Len(h) + 1]

spike_profile(h, t1, t2) ==
    IF ~IntervalsMatch(t1, t2)
    THEN Raise(h, "AssertionError", 0)
    ELSE LET a == BackendArgs(t1, t2)
             Made(o) == Return(o.heap, o.ref, Zero, <<>>, 0, 1)
             Wrap(r) ==
                 Only({Made(x) : x \in {NewObject(h, PieceWiseLinFunc(
                                                         r.times, r.y_starts, r.y_ends))}})
         IN  Only({Wrap(x) : x \in {spike_distance_impl(a[1], a[2], a[3], a[4])}})

---------------------------------------------------------------------------
(* spike_distance *)

spike_distance(h, t1, t2, interval) ==
    LET Avrg(p) ==
            IF ~p.ok THEN p
            ELSE Return(p.heap, 0, avrg(p.heap[p.ref], interval), <<>>, 0, p.merges)
    IN  Only({Avrg(x) : x \in {spike_profile(h, t1, t2)}})

---------------------------------------------------------------------------
(* Generic combinators over a selection of trains (pyspike.generic) *)

\* The trains used: all of them when indices is None.
Selected(ts, indices) ==
    IF indices.none THEN [n \in 1 .. Len(ts) |-> n - 1] ELSE indices.v

ValidIndices(ts, sel) ==
    \A n \in DOMAIN sel : 0 <= sel[n] /\ sel[n] < Len(ts)

\* The positions <<i, j>>, i < j, of a selection of k trains, in rank order.
PairSeq(k) ==
    LET codes == SortedSeq({q[1] * (k + 1) + q[2] :
                               q \in {r \in (1 .. k) \X (1 .. k) : r[1] < r[2]}})
    IN  [n \in 1 .. Len(codes) |-> <<codes[n] \div (k + 1), codes[n] % (k + 1)>>]

RECURSIVE AccumulateProfiles(_, _, _, _, _, _, _)
AccumulateProfiles(h, ts, sel, pairs, n, acc, merges) ==
    IF n > Len(pairs)
    THEN Return(h, acc, Zero, <<>>, Len(pairs), merges)
    ELSE LET Step(p) ==
                 LET First(c) ==
                         AccumulateProfiles(c.heap, ts, sel, pairs, n + 1, c.ref,
                                            merges + p.merges)
                     Rest(h2) ==
                         AccumulateProfiles(h2, ts, sel, pairs, n + 1, acc,
                                            merges + p.merges)
                 IN  IF ~p.ok
                     THEN Raise(p.heap, p.err, merges)
                     ELSE IF acc = 0
                     THEN Only({First(x) : x \in {NewObject(p.heap, p.heap[p.ref])}})
                     ELSE Only({Rest(x) : x \in {[p.heap EXCEPT ![acc] =
                                                      add(p.heap[acc], p.heap[p.ref])]}})
         IN  Only({Step(x) : x \in {spike_profile(h, ts[sel[pairs[n][1]] + 1],
                                                  ts[sel[pairs[n][2]] + 1])}})

_generic_profile_multi(h, ts, indices) ==
    LET Run(sel) ==
            LET Pairs(pairs) == AccumulateProfiles(h, ts, sel, pairs, 1, 0, 0)
            IN  IF ~ValidIndices(ts, sel) \/ Len(sel) < 2
                THEN Raise(h, "DegenerateInputError", 0)
                ELSE Only({Pairs(x) : x \in {PairSeq(Len(sel))}})
    IN  Only({Run(x) : x \in {Selected(ts, indices)}})

RECURSIVE FillMatrix(_, _, _, _, _, _, _, _)
FillMatrix(h, ts, sel, interval, pairs, n, m, merges) ==
    IF n > Len(pairs)
    THEN Return(h, 0, Zero, m, Len(pairs), merges)
    ELSE LET i == pairs[n][1]
             j == pairs[n][2]
             Step(d) ==
                 LET Rest(m2) ==
                         FillMatrix(d.heap, ts, sel, interval, pairs, n + 1, m2,
                                    merges + d.merges)
                 IN  IF ~d.ok
                     THEN Raise(d.heap, d.err, merges)
                     ELSE Only({Rest(x) : x \in {[m EXCEPT ![i][j] = d.value,
                                                           ![j][i] = d.value]}})
         IN  Only({Step(x) : x \in {spike_distance(h, ts[sel[i] + 1], ts[sel[j] + 1],
                                                   interval)}})

_generic_distance_matrix(h, ts, indices, interval) ==
    LET Run(sel) ==
            LET k == Len(sel)
                Pairs(pairs) ==
                    FillMatrix(h, ts, sel, interval, pairs, 1,
                               [i \in 1 .. k |-> [j \in 1 .. k |-> Zero]], 0)
            IN  IF ~ValidIndices(ts, sel) \/ k < 2
                THEN Raise(h, "DegenerateInputError", 0)
                ELSE Only({Pairs(x) : x \in {PairSeq(k)}})
    IN  Only({Run(x) : x \in {Selected(ts, indices)}})

---------------------------------------------------------------------------
(* spike_profile_multi, spike_distance_multi, spike_distance_matrix *)

\* Variant that leaves the sum unscaled.
NormalizeSkipped(h, ref, M) == h

\* average_dist.mul_scalar(1.0/M), in place
Normalize(h, ref, M) ==
    [h EXCEPT ![ref] = mul_scalar(h[ref], Rat(1, M))]

\* Variant that uses every train, whatever indices says.
spike_profile_multi_all(h, ts, indices) ==
    LET Scale(g) ==
            IF ~g.ok THEN g
            ELSE IF g.M = 0 THEN Raise(g.heap, "ZeroDivisionError", g.merges)
            ELSE Return(Normalize(g.heap, g.ref, g.M), g.ref, Zero, <<>>, g.M,
                        g.merges)
    IN  Only({Scale(x) : x \in {_generic_profile_multi(h, ts, None)}})

spike_profile_multi(h, ts, indices) ==
    LET Scale(g) ==
            IF ~g.ok THEN g
            ELSE IF g.M = 0 THEN Raise(g.heap, "ZeroDivisionError", g.merges)
            ELSE Return(Normalize(g.heap, g.ref, g.M), g.ref, Zero, <<>>, g.M,
                        g.merges)
    IN  Only({Scale(x) : x \in {_generic_profile_multi(h, ts, indices)}})

\* Variant that does not pass indices on.
spike_distance_multi_all(h, ts, indices, interval) ==
    LET Avrg(p) ==
            IF ~p.ok THEN p
            ELSE Return(p.heap, 0, avrg(p.heap[p.ref], interval), <<>>, p.M, p.merges)
    IN  Only({Avrg(x) : x \in {spike_profile_multi(h, ts, None)}})

spike_distance_multi(h, ts, indices, interval) ==
    LET Avrg(p) ==
            IF ~p.ok THEN p
            ELSE Return(p.heap, 0, avrg(p.heap[p.ref], interval), <<>>, p.M, p.merges)
    IN  Only({Avrg(x) : x \in {spike_profile_multi(h, ts, indices)}})

\* Variant that does not pass indices on.
spike_distance_matrix_all(h, ts, indices, interval) ==
    _generic_distance_matrix(h, ts, None, interval)

\* Variant that does not pass the averaging interval on.
spike_distance_matrix_whole(h, ts, indices, interval) ==
    _generic_distance_matrix(h, ts, indices, None)

spike_distance_matrix(h, ts, indices, interval) ==
    _generic_distance_matrix(h, ts, indices, interval)

---------------------------------------------------------------------------
(* The caller: one action per public function *)

MaxTrains == 3

\* Averaging intervals: None, or a sub-interval common to every train.
AvgIntervals ==
    {None} \cup
    {Some(iv) : iv \in {q \in (1 .. MaxTime - 1) \X (1 .. MaxTime - 1) : q[1] < q[2]}}

\* Index lists: distinct entries, one past the end included as an invalid index.
IndexLists(N) ==
    {None} \cup
    {Some(s) : s \in UNION {{q \in [1 .. n -> 0 .. N] :
                               \A a, b \in 1 .. n : a # b => q[a] # q[b]} :
                            n \in 0 .. MaxTrains}}

NoCall ==
    [op |-> "none", i |-> 0, j |-> 0, indices |-> None, interval |-> None,
     ok |-> TRUE, err |-> "", ref |-> 0, value |-> Zero, matrix |-> <<>>,
     M |-> 0, merges |-> 0]

Record(op, i, j, indices, interval, o) ==
    [op |-> op, i |-> i, j |-> j, indices |-> indices, interval |-> interval,
     ok |-> o.ok, err |-> o.err, ref |-> o.ref, value |-> o.value,
     matrix |-> o.matrix, M |-> o.M, merges |-> o.merges]

\* The caller keeps every profile it is handed.
Keep(op, i, j, indices, o) ==
    IF o.ok /\ o.ref # 0
    THEN Append(held, [ref |-> o.ref, snap |-> o.heap[o.ref], op |-> op,
                       i |-> i, j |-> j, indices |-> indices])
    ELSE held

Finish(op, i, j, indices, interval, o) ==
    /\ heap' = o.heap
    /\ held' = Keep(op, i, j, indices, o)
    /\ last' = Record(op, i, j, indices, interval, o)
    /\ calls' = calls + 1
    /\ UNCHANGED trains

CallSpikeProfile(limit) ==
    /\ calls < limit
    /\ \E i, j \in 1 .. Len(trains) :
          \E o \in {spike_profile(heap, trains[i], trains[j])} :
              Finish("spike_profile", i, j, None, None, o)

CallSpikeDistance(limit, intervals) ==
    /\ calls < limit
    /\ \E i, j \in 1 .. Len(trains), interval \in intervals :
          \E o \in {spike_distance(heap, trains[i], trains[j], interval)} :
              Finish("spike_distance", i, j, None, interval, o)

CallSpikeProfileMulti(limit, lists) ==
    /\ calls < limit
    /\ \E indices \in lists :
          \E o \in {spike_profile_multi(heap, trains, indices)} :
              Finish("spike_profile_multi", 0, 0, indices, None, o)

CallSpikeDistanceMulti(limit, lists, intervals) ==
    /\ calls < limit
    /\ \E indices \in lists, interval \in intervals :
          \E o \in {spike_distance_multi(heap, trains, indices, interval)} :
              Finish("spike_distance_multi", 0, 0, indices, interval, o)

CallSpikeDistanceMatrix(limit, lists, intervals) ==
    /\ calls < limit
    /\ \E indices \in lists, interval \in intervals :
          \E o \in {spike_distance_matrix(heap, trains, indices, interval)} :
              Finish("spike_distance_matrix", 0, 0, indices, interval, o)

InitWith(lists) ==
    /\ trains \in lists
    /\ heap = <<>>
    /\ held = <<>>
    /\ last = NoCall
    /\ calls = 0

---------------------------------------------------------------------------
(* Pairwise calls on two trains drawn from the whole pool *)

InitPair == InitWith([1 .. 2 -> TrainPool])

NextPair == CallSpikeProfile(1) \/ CallSpikeDistance(1, AvgIntervals)

SpecPair == InitPair /\ [][NextPair]_vars

---------------------------------------------------------------------------
(* Multivariate and matrix calls on a list of up to MaxTrains trains *)

\* Three trains on [0, MaxTime]: a single interior spike, a spike on the
\* boundary, no spike at all.
SharedTrains ==
    <<SpikeTrain(<<1>>, 0, MaxTime),
      SpikeTrain(<<0, MaxTime - 1>>, 0, MaxTime),
      SpikeTrain(<<>>, 0, MaxTime)>>

SharedPool == Range(SharedTrains)

\* ... and one train observed over a shorter interval.
MultiPool == SharedPool \cup {SpikeTrain(<<1>>, 0, MaxTime - 1)}

InitMulti == InitWith(UNION {[1 .. n -> MultiPool] : n \in 0 .. MaxTrains})

NextMulti ==
    \/ CallSpikeProfileMulti(1, IndexLists(Len(trains)))
    \/ CallSpikeDistanceMulti(1, IndexLists(Len(trains)), AvgIntervals)
    \/ CallSpikeDistanceMatrix(1, IndexLists(Len(trains)), AvgIntervals)

SpecMulti == InitMulti /\ [][NextMulti]_vars

---------------------------------------------------------------------------
(* Sequences of calls on one list of trains that share an interval *)

\* Ascending selections of at least two trains, or None.
AscendingLists(N) ==
    {None} \cup
    {Some(SortedSeq(S)) : S \in {T \in SUBSET (0 .. N - 1) : Cardinality(T) >= 2}}

InitAlias == InitWith({SharedTrains})

NextAlias ==
    \/ CallSpikeProfile(MaxCalls)
    \/ CallSpikeDistance(MaxCalls, {None})
    \/ CallSpikeProfileMulti(MaxCalls, AscendingLists(Len(trains)))
    \/ CallSpikeDistanceMulti(MaxCalls, AscendingLists(Len(trains)), {None})
    \/ CallSpikeDistanceMatrix(MaxCalls, AscendingLists(Len(trains)), {None})

SpecAlias == InitAlias /\ [][NextAlias]_vars

---------------------------------------------------------------------------
(* Properties of the pairwise calls *)

PairCall == last.op \in {"spike_profile", "spike_distance"}

IntervalsDiffer(t1, t2) == t1.t_start # t2.t_start \/ t1.t_end # t2.t_end

\* C1: when the two trains differ in t_start or in t_end, spike_profile and
\* spike_distance raise at entry, the merge backend is not invoked and nothing
\* is returned; when both bounds agree the call succeeds and spike_profile
\* returns a profile.
C1_IntervalCheckedAtEntry ==
    PairCall =>
        IF IntervalsDiffer(trains[last.i], trains[last.j])
        THEN /\ ~last.ok
             /\ last.err = "AssertionError"
             /\ last.merges = 0
             /\ last.ref = 0
             /\ held = <<>>
        ELSE /\ last.ok
             /\ last.merges = 1
             /\ last.op = "spike_profile" =>
                    /\ last.ref \in DOMAIN heap
                    /\ Len(held) = 1
                    /\ held[1].ref = last.ref

C1_Witness ==
    /\ last.op = "spike_distance"
    /\ trains[last.i].t_start = trains[last.j].t_start
    /\ trains[last.i].t_end # trains[last.j].t_end
    /\ ~last.ok

StrictlyIncreasing(x) == \A k \in 1 .. Len(x) - 1 : x[k] < x[k + 1]

\* C6: the breakpoints of the profile returned by spike_profile are exactly the
\* distinct times among the spikes of both trains, t_start and t_end, in
\* strictly increasing order, from t_start to t_end, each time once.
C6_BreakpointsAreTheUnion ==
    (last.op = "spike_profile" /\ last.ok) =>
        LET t1 == trains[last.i]
            t2 == trains[last.j]
            x == heap[last.ref].x
            U == Range(t1.spikes) \cup Range(t2.spikes) \cup {t1.t_start, t1.t_end}
        IN  /\ Range(x) = U
            /\ Len(x) = Cardinality(U)
            /\ StrictlyIncreasing(x)
            /\ x[1] = t1.t_start
            /\ x[Len(x)] = t1.t_end

C6_Witness ==
    /\ last.op = "spike_profile"
    /\ last.ok
    /\ last.i # last.j
    /\ Range(trains[last.i].spikes) \cap Range(trains[last.j].spikes) # {}
    /\ trains[last.i].t_start \in Range(trains[last.i].spikes)
    /\ Range(trains[last.i].spikes) # Range(trains[last.j].spikes)

---------------------------------------------------------------------------
(* Properties of the multivariate and matrix calls *)

MultiCall ==
    last.op \in {"spike_profile_multi", "spike_distance_multi", "spike_distance_matrix"}

IndicesInRange ==
    last.indices.none \/
    \A n \in DOMAIN last.indices.v :
        last.indices.v[n] >= 0 /\ last.indices.v[n] <= Len(trains) - 1

\* The selected trains, in the order of the call (indices in range).
SubList ==
    IF last.indices.none THEN trains
    ELSE [n \in 1 .. Len(last.indices.v) |-> trains[last.indices.v[n] + 1]]

ShareInterval(ts) ==
    \A a, b \in DOMAIN ts : ~IntervalsDiffer(ts[a], ts[b])

UnorderedPairs(k) == {q \in (1 .. k) \X (1 .. k) : q[1] < q[2]}

\* The pairwise profile of two trains on the same interval.
PairProfile(t1, t2) ==
    LET r == spike_distance_impl(t1.spikes, t2.spikes, t1.t_start, t1.t_end)
    IN  PieceWiseLinFunc(r.times, r.y_starts, r.y_ends)

\* Sum of the rationals e[2] of a set of <<key, rational>> entries.
RECURSIVE RSumSet(_)
RSumSet(S) ==
    IF S = {} THEN Zero
    ELSE LET e == CHOOSE e \in S : TRUE IN RAdd(e[2], RSumSet(S \ {e}))

\* C2: for k >= 2 selected trains on one interval, spike_profile_multi returns
\* the profile whose value at every time is the sum over the k*(k-1)/2 unordered
\* pairs of selected trains of that pair's spike_profile, each pair once,
\* times 1/M with M = k*(k-1)/2; for k = 2 it is the pairwise profile itself.
C2_MultiProfileIsPairAverage ==
    (/\ last.op = "spike_profile_multi"
     /\ IndicesInRange
     /\ Len(SubList) >= 2
     /\ ShareInterval(SubList)) =>
        LET sub == SubList
            k == Len(sub)
            M == (k * (k - 1)) \div 2
            P == UnorderedPairs(k)
            t_start == sub[1].t_start
            t_end == sub[1].t_end
        IN  /\ last.ok
            /\ last.M = M
            /\ last.merges = M
            /\ LET f == heap[last.ref]
               IN  /\ f.x[1] = t_start
                   /\ f.x[Len(f.x)] = t_end
                   /\ \A t \in t_start .. t_end - 1 :
                         ValRight(f, t) =
                             RMul(RSumSet({<<q, ValRight(PairProfile(sub[q[1]], sub[q[2]]), t)>> :
                                              q \in P}),
                                  Rat(1, M))
                   /\ \A t \in t_start + 1 .. t_end :
                         ValLeft(f, t) =
                             RMul(RSumSet({<<q, ValLeft(PairProfile(sub[q[1]], sub[q[2]]), t)>> :
                                              q \in P}),
                                  Rat(1, M))
                   /\ k = 2 => f = PairProfile(sub[1], sub[2])

C2_Witness ==
    /\ last.op = "spike_profile_multi"
    /\ last.ok
    /\ ~last.indices.none
    /\ Len(last.indices.v) = 3
    /\ last.M = 3
    /\ \E n \in DOMAIN heap[last.ref].y1 : heap[last.ref].y1[n][1] > 0
    /\ \A a, b \in 1 .. 3 : a # b => SubList[a] # SubList[b]

\* Whether outcome o of a multivariate call is the outcome recorded in last.
SameOutcome(o) ==
    /\ o.ok = last.ok
    /\ o.err = last.err
    /\ (last.ok /\ last.op = "spike_profile_multi") => o.heap[o.ref] = heap[last.ref]
    /\ (last.ok /\ last.op = "spike_distance_multi") => o.value = last.value

\* C3: with a list of valid indices, spike_profile_multi and
\* spike_distance_multi give the result of the same call without indices on the
\* extracted sub-list, and the result of the call with the same indices listed
\* in ascending order.
C3_SubsetEqualsSubList ==
    (/\ last.op \in {"spike_profile_multi", "spike_distance_multi"}
     /\ ~last.indices.none
     /\ IndicesInRange) =>
        LET sorted == Some(SortedSeq(Range(last.indices.v)))
        IN  IF last.op = "spike_profile_multi"
            THEN /\ SameOutcome(spike_profile_multi(<<>>, SubList, None))
                 /\ SameOutcome(spike_profile_multi(<<>>, trains, sorted))
            ELSE /\ SameOutcome(spike_distance_multi(<<>>, SubList, None, last.interval))
                 /\ SameOutcome(spike_distance_multi(<<>>, trains, sorted, last.interval))

C3_Witness ==
    /\ last.op = "spike_distance_multi"
    /\ last.ok
    /\ ~last.indices.none
    /\ Len(last.indices.v) = 2
    /\ last.indices.v[1] > last.indices.v[2]
    /\ Len(trains) = 3
    /\ last.value[1] > 0
    /\ ~ShareInterval(trains)

\* C4: the matrix returned by spike_distance_matrix is k x k for the k selected
\* trains, symmetric, with a zero diagonal, and the pairwise distance was
\* computed once per unordered pair of distinct positions, never for (i, i).
C4_MatrixSymmetricZeroDiagonal ==
    (last.op = "spike_distance_matrix" /\ last.ok) =>
        LET k == IF last.indices.none THEN Len(trains) ELSE Len(last.indices.v)
            m == last.matrix
        IN  /\ DOMAIN m = 1 .. k
            /\ \A i \in 1 .. k : DOMAIN m[i] = 1 .. k
            /\ \A i, j \in 1 .. k : m[i][j] = m[j][i]
            /\ \A i \in 1 .. k : m[i][i] = Zero
            /\ last.merges = (k * (k - 1)) \div 2

C4_Witness ==
    /\ last.op = "spike_distance_matrix"
    /\ last.ok
    /\ ~last.indices.none
    /\ Len(last.indices.v) = 2
    /\ Len(trains) = 3
    /\ last.matrix[1][2][1] > 0

\* C5: for distinct positions i and j, in either order, entry (i, j) of the
\* matrix is spike_distance of the i-th and the j-th selected train over the
\* interval of the call.
C5_MatrixEntriesArePairDistances ==
    (last.op = "spike_distance_matrix" /\ last.ok) =>
        \A i, j \in DOMAIN last.matrix :
            i # j => last.matrix[i][j] =
                         avrg(PairProfile(SubList[i], SubList[j]), last.interval)

C5_Witness ==
    /\ last.op = "spike_distance_matrix"
    /\ last.ok
    /\ ~last.interval.none
    /\ ~last.indices.none
    /\ Len(last.indices.v) = 3
    /\ last.indices.v[1] > last.indices.v[2]
    /\ last.matrix[1][2] # last.matrix[1][3]
    /\ last.matrix[3][1][1] > 0

C8_ErrorsBeforeAnyMerge ==
    (last.op # "none" /\ ~last.ok) => last.merges = 0

---------------------------------------------------------------------------
(* Properties of sequences of calls *)

HeldUnchanged ==
    \A n \in DOMAIN held :
        held[n].ref \in DOMAIN heap /\ heap[held[n].ref] = held[n].snap

SameCallSameProfile ==
    \A a, b \in DOMAIN held :
        (/\ held[a].op = held[b].op
         /\ held[a].i = held[b].i
         /\ held[a].j = held[b].j
         /\ held[a].indices = held[b].indices) => held[a].snap = held[b].snap

\* C9: no call changes the input trains or a profile returned earlier, the
\* in-place scaling of spike_profile_multi touches no object the caller holds,
\* and the same call on the same inputs returns an equal profile.
C9_CallsArePure ==
    /\ [](HeldUnchanged /\ SameCallSameProfile)
    /\ [][trains' = trains]_vars

C9_Witness ==
    /\ calls = 2
    /\ Len(held) = 2
    /\ last.op = "spike_profile_multi"
    /\ last.M = 3
    /\ held[1].op = "spike_profile_multi"
    /\ held[1].indices = held[2].indices
    /\ held[1].ref # held[2].ref
    /\ \E n \in DOMAIN held[1].snap.y1 : held[1].snap.y1[n][1] > 0

====
